---- MODULE Spec2Model ----
(***************************************************************************)
(* Tolman IV stellar-interior solution (eos_project).                      *)
(*                                                                         *)
(* The Python code computes with floats.  This model computes the same     *)
(* expressions, in the same order, over exact real numbers of the form     *)
(* (n/d) * (8*np.pi)^k with n, d arbitrary-precision integers; rounding    *)
(* error of the float operations is not modelled.  A radius is a signed    *)
(* square root of a rational (boundary_radius() takes square roots), and   *)
(* r**2 gives the rational back.                                           *)
(***************************************************************************)
EXTENDS Integers, Sequences, FiniteSets, TLC

(***************************************************************************)
(* Bounds of the explored inputs.                                          *)
(***************************************************************************)
MaxA == 3
MaxR == 5
MaxNeg == 2
MaxN == 3
RadiusSteps == 4
MaxCases == 2

(***************************************************************************)
(* Arbitrary-precision naturals: little-endian limb sequences, no leading  *)
(* zero limb, <<>> is 0.  (TLC integers are 32 bit; Python floats and ints *)
(* are not.)                                                               *)
(***************************************************************************)
Base == 10 * 10 * 10

Sgn(x) == IF x < 0 THEN -1 ELSE IF x > 0 THEN 1 ELSE 0
Abs(x) == IF x < 0 THEN -x ELSE x

\* the number of limbs left once the leading zero limbs are dropped
NTop(s) == IF \A i \in 1..Len(s) : s[i] = 0 THEN 0
           ELSE CHOOSE i \in 1..Len(s) : s[i] # 0 /\ \A j \in (i + 1)..Len(s) : s[j] = 0

NStrip(s) == SubSeq(s, 1, NTop(s))

RECURSIVE NFromNat(_)
NFromNat(x) == IF x = 0 THEN <<>> ELSE <<x % Base>> \o NFromNat(x \div Base)

NSplit(s) == [d |-> <<s % Base>>, c |-> s \div Base]

\* Propagates carries (or borrows) through the raw limb values raw[lo..hi],
\* given the carry c into raw[lo]: the limbs and the carry out.
RECURSIVE NCarrySeg(_, _, _, _)
NCarryJoin(low, raw, lo, hi) ==
    [d |-> low.d \o NCarrySeg(raw, lo, hi, low.c).d, c |-> NCarrySeg(raw, lo, hi, low.c).c]
NCarrySeg(raw, lo, hi, c) ==
    IF lo = hi THEN NSplit(raw[lo] + c)
    ELSE NCarryJoin(NCarrySeg(raw, lo, (lo + hi) \div 2, c), raw, ((lo + hi) \div 2) + 1, hi)

NCarryOut(r) == r.d \o NFromNat(r.c)
NCarry(raw) == IF Len(raw) = 0 THEN <<>> ELSE NCarryOut(NCarrySeg(raw, 1, Len(raw), 0))

NLimb(a, k) == IF k >= 1 /\ k <= Len(a) THEN a[k] ELSE 0
NMaxLen(a, b) == IF Len(a) > Len(b) THEN Len(a) ELSE Len(b)

NAdd(a, b) == NCarry([k \in 1..NMaxLen(a, b) |-> NLimb(a, k) + NLimb(b, k)])

\* a - b for a >= b
NSub(a, b) == NStrip(NCarry([k \in 1..Len(a) |-> a[k] - NLimb(b, k)]))

NCmpAt(a, b, k) == IF a[k] < b[k] THEN -1 ELSE 1
NCmp(a, b) ==
    IF Len(a) < Len(b) THEN -1
    ELSE IF Len(a) > Len(b) THEN 1
    ELSE IF a = b THEN 0
    ELSE NCmpAt(a, b, CHOOSE i \in 1..Len(a) :
                          a[i] # b[i] /\ \A j \in (i + 1)..Len(a) : a[j] = b[j])

\* sum of a[i] * b[k + 1 - i] for i in lo..hi
RECURSIVE NConv(_, _, _, _, _)
NConv(a, b, k, lo, hi) ==
    IF lo > hi THEN 0
    ELSE IF lo = hi THEN a[lo] * b[k + 1 - lo]
    ELSE NConv(a, b, k, lo, (lo + hi) \div 2) + NConv(a, b, k, ((lo + hi) \div 2) + 1, hi)

NMul(a, b) ==
    IF a = <<>> \/ b = <<>> THEN <<>>
    ELSE IF b = <<1>> THEN a
    ELSE IF a = <<1>> THEN b
    ELSE NStrip(NCarry([k \in 1..(Len(a) + Len(b) - 1) |->
                          NConv(a, b, k,
                                IF k - Len(b) + 1 > 1 THEN k - Len(b) + 1 ELSE 1,
                                IF k < Len(a) THEN k ELSE Len(a))]))

RECURSIVE NPow(_, _)
NPow(a, e) == IF e = 0 THEN <<1>> ELSE NMul(a, NPow(a, e - 1))

(***************************************************************************)
(* np.pi is the double 884279719003555 / 2^48.                             *)
(***************************************************************************)
np_pi_num == <<555, 3, 719, 279, 884>>
np_pi_den == <<656, 710, 976, 474, 281>>

(***************************************************************************)
(* Real numbers (n/d) * (8*np.pi)^k: sign s, magnitude n over d, power k.  *)
(* Zero is kept as 0/1 with k = 0.                                         *)
(***************************************************************************)
RZero == [s |-> 0, n |-> <<>>, d |-> <<1>>, k |-> 0]
RMake(s, n, d, k) == IF s = 0 THEN RZero ELSE [s |-> s, n |-> n, d |-> d, k |-> k]

\* the Python number x/y for integers x and y > 0
Frac(x, y) == RMake(Sgn(x), NFromNat(Abs(x)), NFromNat(y), 0)
Num(x) == Frac(x, 1)

\* 8 * np.pi
EightPi == RMake(1, <<1>>, <<1>>, 1)

\* x * (up/down)^e
RScale(x, up, down, e) == RMake(x.s, NMul(x.n, NPow(up, e)), NMul(x.d, NPow(down, e)), 0)
\* the same number with the power of 8*np.pi multiplied out
RExpand(x) ==
    IF x.k = 0 THEN x
    ELSE RScale(x, IF x.k > 0 THEN NMul(<<8>>, np_pi_num) ELSE np_pi_den,
                IF x.k > 0 THEN np_pi_den ELSE NMul(<<8>>, np_pi_num), Abs(x.k))
\* x as it enters a sum or a comparison with y
RAlign(x, y) == IF x.k = y.k \/ x.s = 0 \/ y.s = 0 THEN x ELSE RExpand(x)

RNeg(x) == RMake(-x.s, x.n, x.d, x.k)
RAbs(x) == RMake(Abs(x.s), x.n, x.d, x.k)

\* s1*un/d + s2*vn/d, s1 and s2 not 0
RAddSigned(s1, un, s2, vn, d, k) ==
    IF s1 = s2 THEN RMake(s1, NAdd(un, vn), d, k)
    ELSE IF un = vn THEN RZero
    ELSE RMake(IF NCmp(un, vn) > 0 THEN s1 ELSE s2,
               NSub(IF NCmp(un, vn) > 0 THEN un ELSE vn,
                    IF NCmp(un, vn) > 0 THEN vn ELSE un), d, k)

\* x + y for x, y with the same power of 8*np.pi
RAddSameK(x, y) ==
    IF x.s = 0 THEN y
    ELSE IF y.s = 0 THEN x
    ELSE RAddSigned(x.s, NMul(x.n, y.d), y.s, NMul(y.n, x.d), NMul(x.d, y.d), x.k)

RAdd(x, y) == RAddSameK(RAlign(x, y), RAlign(y, x))
RSub(x, y) == RAdd(x, RNeg(y))
RMul(x, y) == RMake(x.s * y.s, NMul(x.n, y.n), NMul(x.d, y.d), x.k + y.k)
\* x / y for y # 0 (Python raises ZeroDivisionError for y = 0: the *_raises predicates)
RDiv(x, y) == RMake(x.s * y.s, NMul(x.n, y.d), NMul(x.d, y.n), x.k - y.k)

RCmpSameK(x, y) ==
    IF x.s # y.s THEN (IF x.s < y.s THEN -1 ELSE 1)
    ELSE IF x.s = 0 THEN 0
    ELSE x.s * NCmp(NMul(x.n, y.d), NMul(y.n, x.d))

\* -1, 0, 1 as x < y, x = y, x > y
RCmp(x, y) == RCmpSameK(RAlign(x, y), RAlign(y, x))
RLt(x, y) == RCmp(x, y) < 0
RLe(x, y) == RCmp(x, y) <= 0
REq(x, y) == RCmp(x, y) = 0

(***************************************************************************)
(* Radii: sgn * sqrt(sq), sq a non-negative real.                          *)
(***************************************************************************)
Root(sgn, sq) == IF sgn = 0 \/ sq.s = 0 THEN [sgn |-> 0, sq |-> RZero]
                 ELSE [sgn |-> sgn, sq |-> sq]
\* radius * x for a real x
RootScale(rt, x) == Root(rt.sgn * x.s, RMul(rt.sq, RMul(x, x)))
\* r**2
Sq(rt) == rt.sq
RootCmp(x, y) ==
    IF x.sgn # y.sgn THEN (IF x.sgn < y.sgn THEN -1 ELSE 1)
    ELSE IF x.sgn = 0 THEN 0
    ELSE x.sgn * RCmp(x.sq, y.sq)
\* the radius equal to the Python number x
RootOf(x) == Root(x.s, RMul(x, x))

\* a linspace that runs from stop down to 0
linspace_mut(stop, n, i) ==
    IF n = 1 THEN Root(0, RZero) ELSE RootScale(stop, Frac(n - 1 - i, n - 1))
\* a linspace that starts one step late and overshoots stop
linspace_shifted(stop, n, i) ==
    IF n = 1 THEN Root(0, RZero) ELSE RootScale(stop, Frac(i + 1, n - 1))
\* np.linspace(0, stop, n)[i]
linspace(stop, n, i) == IF n = 1 THEN Root(0, RZero) ELSE RootScale(stop, Frac(i, n - 1))

NoneV == [None |-> TRUE]
\* the value of a float division whose divisor is zero under numpy (inf or nan)
NonFinite == [nonfinite |-> TRUE]

Entries == {"process_single_case", "analyze_tolman_iv", "corrected_main"}
\* methods called on a freshly constructed TolmanIVCore
DirectEntries == {"density", "verify_equation_of_state"}

(***************************************************************************)
(* tolmanIV_modular.py: TolmanIVCore                                       *)
(***************************************************************************)
\* a constructor that accepts R = A
TolmanIVCore_raises_mut(a, r) == r < a
\* __init__ raises ValueError
TolmanIVCore_raises(a, r) == r <= a

\* x/0 raises ZeroDivisionError: 1/A2, A2/R2, r2/R2, r2/A2
pressure_raises(self) == self.A * self.A = 0 \/ self.R * self.R = 0

pressure(self, r) ==
    LET r2 == Sq(r)
        A2 == Num(self.A * self.A)
        R2 == Num(self.R * self.R)
        eight_pi_p == RDiv(RMul(RDiv(Num(1), A2),
                                RSub(RSub(Num(1), RDiv(A2, R2)), RDiv(RMul(Num(3), r2), R2))),
                           RAdd(Num(1), RDiv(RMul(Num(2), r2), A2)))
    IN RDiv(eight_pi_p, EightPi)

\* 1/A2, A2/R2, r2/R2, r2/A2 raise ZeroDivisionError
density_raises(self) == self.A * self.A = 0 \/ self.R * self.R = 0

\* the density with term2 subtracted
density_mut(self, r) ==
    LET r2 == Sq(r)
        A2 == Num(self.A * self.A)
        R2 == Num(self.R * self.R)
        term1 == RDiv(RMul(RDiv(Num(1), A2),
                           RAdd(RAdd(Num(1), RDiv(RMul(Num(3), A2), R2)),
                                RDiv(RMul(Num(3), r2), R2))),
                      RAdd(Num(1), RDiv(RMul(Num(2), r2), A2)))
        term2 == RDiv(RMul(RDiv(Num(2), A2), RSub(Num(1), RDiv(r2, R2))),
                      LET b == RAdd(Num(1), RDiv(RMul(Num(2), r2), A2)) IN RMul(b, b))
        eight_pi_rho == RSub(term1, term2)
    IN RDiv(eight_pi_rho, EightPi)

density(self, r) ==
    LET r2 == Sq(r)
        A2 == Num(self.A * self.A)
        R2 == Num(self.R * self.R)
        term1 == RDiv(RMul(RDiv(Num(1), A2),
                           RAdd(RAdd(Num(1), RDiv(RMul(Num(3), A2), R2)),
                                RDiv(RMul(Num(3), r2), R2))),
                      RAdd(Num(1), RDiv(RMul(Num(2), r2), A2)))
        term2 == RDiv(RMul(RDiv(Num(2), A2), RSub(Num(1), RDiv(r2, R2))),
                      LET b == RAdd(Num(1), RDiv(RMul(Num(2), r2), A2)) IN RMul(b, b))
        eight_pi_rho == RAdd(term1, term2)
    IN RDiv(eight_pi_rho, EightPi)

central_values_raises(self) == self.A * self.A = 0 \/ self.R * self.R = 0

\* central values with the sign of 1/R2 in the central pressure flipped
central_values_mut(self) ==
    LET A2 == Num(self.A * self.A)
        R2 == Num(self.R * self.R)
        eight_pi_rho_c == RAdd(RDiv(Num(3), A2), RDiv(Num(3), R2))
        eight_pi_p_c == RAdd(RDiv(Num(1), A2), RDiv(Num(1), R2))
    IN [rho_c |-> RDiv(eight_pi_rho_c, EightPi), p_c |-> RDiv(eight_pi_p_c, EightPi)]

central_values(self) ==
    LET A2 == Num(self.A * self.A)
        R2 == Num(self.R * self.R)
        eight_pi_rho_c == RAdd(RDiv(Num(3), A2), RDiv(Num(3), R2))
        eight_pi_p_c == RSub(RDiv(Num(1), A2), RDiv(Num(1), R2))
    IN [rho_c |-> RDiv(eight_pi_rho_c, EightPi), p_c |-> RDiv(eight_pi_p_c, EightPi)]

\* A2/R2 raises ZeroDivisionError
boundary_radius_raises(self) == self.R * self.R = 0

\* a boundary radius with sqrt(2) in place of sqrt(3)
boundary_radius_mut(self) ==
    LET A2 == Num(self.A * self.A)
        R2 == Num(self.R * self.R)
    IN IF RLe(Num(1), RDiv(A2, R2)) THEN Root(0, RZero)
       ELSE Root(Sgn(self.R), RMul(RDiv(Num(self.R * self.R), Num(2)),
                                   RSub(Num(1), RDiv(A2, R2))))

\* a boundary radius without the division by sqrt(3)
boundary_radius_wide(self) ==
    LET A2 == Num(self.A * self.A)
        R2 == Num(self.R * self.R)
    IN IF RLe(Num(1), RDiv(A2, R2)) THEN Root(0, RZero)
       ELSE Root(Sgn(self.R), RMul(Num(self.R * self.R), RSub(Num(1), RDiv(A2, R2))))

boundary_radius(self) ==
    LET A2 == Num(self.A * self.A)
        R2 == Num(self.R * self.R)
    IN IF RLe(Num(1), RDiv(A2, R2)) THEN Root(0, RZero)
       ELSE \* (R / sqrt(3)) * sqrt(1 - A2/R2)
            Root(Sgn(self.R), RMul(RDiv(Num(self.R * self.R), Num(3)),
                                   RSub(Num(1), RDiv(A2, R2))))

\* the relation with 4 in place of 5
equation_of_state_mut(self, p) ==
    LET cv == central_values(self)
        rho_c == cv.rho_c
        p_c == cv.p_c
    IN RAdd(RSub(rho_c, RMul(Num(4), RSub(p_c, p))),
            RDiv(RMul(Num(8), LET d == RSub(p_c, p) IN RMul(d, d)), RAdd(rho_c, p_c)))

equation_of_state(self, p) ==
    LET cv == central_values(self)
        rho_c == cv.rho_c
        p_c == cv.p_c
    IN RAdd(RSub(rho_c, RMul(Num(5), RSub(p_c, p))),
            RDiv(RMul(Num(8), LET d == RSub(p_c, p) IN RMul(d, d)), RAdd(rho_c, p_c)))

(***************************************************************************)
(* tolmanIV_modular.py: TolmanIVAnalysis                                   *)
(***************************************************************************)
\* R/A raises ZeroDivisionError
check_validity_conditions_raises(self) == self.A = 0

\* np.sqrt(3) * A
Sqrt3Times(a) == Root(Sgn(a), Num(3 * a * a))

check_validity_conditions(self) ==
    [R_gt_A |-> self.R > self.A,
     pc_gt_0 |-> RootCmp(RootOf(Num(self.R)), Sqrt3Times(self.A)) < 0,
     R_A_ratio |-> Frac(Sgn(self.A) * self.R, Abs(self.A)),
     sqrt3_A |-> Sqrt3Times(self.A)]

analyze_solution_raises(self) ==
    \/ check_validity_conditions_raises(self)
    \/ central_values_raises(self)
    \/ boundary_radius_raises(self)

\* what analyze_solution prints about the boundary
analyze_solution_prints(self) ==
    LET rb == boundary_radius(self)
    IN IF rb.sgn > 0
       THEN [has_rb |-> TRUE, rb |-> rb, rho_b |-> density(self, rb), p_b |-> pressure(self, rb)]
       ELSE [has_rb |-> FALSE, rb |-> rb, rho_b |-> Num(0), p_b |-> Num(0)]

analyze_solution(self) ==
    LET conditions == check_validity_conditions(self)
        cv == central_values(self)
        rb == boundary_radius(self)
    IN [valid |-> conditions.R_gt_A /\ conditions.pc_gt_0,
        rho_c |-> cv.rho_c,
        p_c |-> cv.p_c,
        rb |-> rb]

RECURSIVE RSum(_)
RSum(xs) == IF xs = <<>> THEN RZero ELSE RAdd(Head(xs), RSum(Tail(xs)))

RMaxOf(x, y) == IF RLt(x, y) THEN y ELSE x
RECURSIVE RMax(_)
RMax(xs) == IF Len(xs) = 1 THEN xs[1] ELSE RMaxOf(xs[1], RMax(Tail(xs)))

\* verify_equation_of_state: error = abs(rho_eos - rho_direct) / rho_direct * 100
relative_error(rho_eos_v, rho_direct) ==
    RMul(RDiv(RAbs(RSub(rho_eos_v, rho_direct)), rho_direct), Num(100))

\* verify_equation_of_state: the returned dictionary
verify_report(errs) ==
    [mean_error |-> IF errs # <<>> THEN RDiv(RSum(errs), Num(Len(errs))) ELSE NoneV,
     max_error |-> IF errs # <<>> THEN RMax(errs) ELSE NoneV]

check_physical_conditions(data_df) ==
    LET rows == data_df.rows
    IN [energy_condition |-> \A j \in 1..Len(rows) : RLe(rows[j].p, rows[j].rho),
        positive_pressure |-> \A j \in 1..Len(rows) : RLe(RZero, rows[j].p),
        positive_density |-> \A j \in 1..Len(rows) : RLt(RZero, rows[j].rho),
        causality |-> \A j \in 1..Len(rows) : RLe(rows[j].p_over_rho, Num(1)),
        max_p_over_rho |-> RMax([j \in 1..Len(rows) |-> rows[j].p_over_rho]),
        pressure_monotonic |-> \A j \in 2..Len(rows) : RLe(rows[j].p, rows[j - 1].p),
        density_monotonic |-> \A j \in 2..Len(rows) : RLe(rows[j].rho, rows[j - 1].rho)]

(***************************************************************************)
(* tolmanIV_modular.py: TolmanIVData                                       *)
(***************************************************************************)
\* 1e-10
Tiny == RMake(1, <<1>>, <<0, 0, 0, 10>>, 0)

\* a filter that keeps negative pressures
is_physical_mut(pv, rhov) == RLt(RZero, rhov)
\* a filter that keeps every sample
is_physical_all(pv, rhov) == TRUE
\* generate_eos_data: if p >= 0 and rho > 0
is_physical(pv, rhov) == RLe(RZero, pv) /\ RLt(RZero, rhov)

\* generate_eos_data: cs2 of the sample idx, given the rows retained so far
\* dp/drho if abs(drho) > 1e-10 else 0
\* the inverse slope drho/dp
slope_mut(dp, drho) == IF RLt(Tiny, RAbs(drho)) THEN RDiv(drho, dp) ELSE RZero
slope(dp, drho) == IF RLt(Tiny, RAbs(drho)) THEN RDiv(dp, drho) ELSE RZero
sound_speed(rows, idx, pv, rhov) ==
    IF idx > 0 /\ Len(rows) > 0
    THEN slope(RSub(pv, rows[Len(rows)].p), RSub(rhov, rows[Len(rows)].rho))
    ELSE RZero

\* a row whose ratio is taken against rho + p
data_row_mut(rows, idx, rv, pv, rhov) ==
    [r |-> rv, rho |-> rhov, p |-> pv,
     p_over_rho |-> IF RLt(RZero, rhov) THEN RDiv(pv, RAdd(rhov, pv)) ELSE RZero,
     cs2 |-> sound_speed(rows, idx, pv, rhov)]

\* generate_eos_data: the dictionary appended to data
data_row(rows, idx, rv, pv, rhov) ==
    [r |-> rv, rho |-> rhov, p |-> pv,
     p_over_rho |-> IF RLt(RZero, rhov) THEN RDiv(pv, rhov) ELSE RZero,
     cs2 |-> sound_speed(rows, idx, pv, rhov)]

\* the file name f'tolmanIV_A{A}_R{R}.csv'
csv_name(a, r, suffix) == [A |-> a, R |-> r, suffix |-> suffix]

\* generate_eos_data as a function of the core and n_points: the loop body
\* for sample idx at radius rv, and the loop from sample idx on
generate_keep(rows, idx, rv, pv, rhov) ==
    IF is_physical(pv, rhov) THEN Append(rows, data_row(rows, idx, rv, pv, rhov)) ELSE rows
generate_at(self, rows, idx, rv) ==
    generate_keep(rows, idx, rv, pressure(self, rv), density(self, rv))
RECURSIVE generate_rows(_, _, _, _, _)
generate_rows(self, stop, np, idx, rows) ==
    IF idx >= np THEN rows
    ELSE generate_rows(self, stop, np, idx + 1,
                       generate_at(self, rows, idx, linspace(stop, np, idx)))
generate_eos_data(self, np) ==
    IF boundary_radius(self).sgn <= 0 THEN [rows |-> <<>>]
    ELSE [rows |-> generate_rows(self, RootScale(boundary_radius(self), Frac(999, 1000)),
                                 np, 0, <<>>)]

\* verify_equation_of_state as a function of the core and n_points
verify_error_at(self, errs, pv, rhov) ==
    IF RLt(RZero, rhov) THEN Append(errs, relative_error(equation_of_state(self, pv), rhov))
    ELSE errs
verify_at(self, errs, rv) == verify_error_at(self, errs, pressure(self, rv), density(self, rv))
RECURSIVE verify_errors(_, _, _, _, _)
verify_errors(self, stop, np, idx, errs) ==
    IF idx >= np THEN errs
    ELSE verify_errors(self, stop, np, idx + 1,
                       verify_at(self, errs, linspace(stop, np, idx)))
verify_equation_of_state(self, np) ==
    IF boundary_radius(self).sgn <= 0 THEN NoneV
    ELSE verify_report(verify_errors(self, RootScale(boundary_radius(self), Frac(99, 100)),
                                     np, 0, <<>>))

(***************************************************************************)
(* tolman_iv_complete.py: TolmanIV.generate_eos_data, and tolman_IV.py:    *)
(* TolmanIV.generate_data. Their __init__, pressure, density and           *)
(* boundary_radius are those of TolmanIVCore, line for line.               *)
(***************************************************************************)
VariantEntries == {"complete_generate_eos_data", "generate_data"}

\* a difference taken against the first retained point
complete_sound_speed_mut(rows, pv, rhov) ==
    IF Len(rows) > 0
    THEN slope(RSub(pv, rows[1].p), RSub(rhov, rows[1].rho))
    ELSE RZero
\* tolman_iv_complete.py: if len(data) > 0: cs2 = dp/drho ... else: cs2 = 0
complete_sound_speed(rows, pv, rhov) ==
    IF Len(rows) > 0
    THEN slope(RSub(pv, rows[Len(rows)].p), RSub(rhov, rows[Len(rows)].rho))
    ELSE RZero
complete_row(rows, rv, pv, rhov) ==
    [r |-> rv, rho |-> rhov, p |-> pv,
     p_over_rho |-> IF RLt(RZero, rhov) THEN RDiv(pv, rhov) ELSE RZero,
     cs2 |-> complete_sound_speed(rows, pv, rhov)]
complete_keep(rows, rv, pv, rhov) ==
    IF is_physical(pv, rhov) THEN Append(rows, complete_row(rows, rv, pv, rhov)) ELSE rows
complete_at(self, rows, rv) == complete_keep(rows, rv, pressure(self, rv), density(self, rv))
RECURSIVE complete_rows(_, _, _, _, _)
complete_rows(self, stop, np, idx, rows) ==
    IF idx >= np THEN rows
    ELSE complete_rows(self, stop, np, idx + 1,
                       complete_at(self, rows, linspace(stop, np, idx)))
\* tolman_iv_complete.py generate_eos_data(n_points)
complete_generate_eos_data(self, np) ==
    IF boundary_radius(self).sgn <= 0 THEN [rows |-> <<>>]
    ELSE [rows |-> complete_rows(self, RootScale(boundary_radius(self), Frac(999, 1000)),
                                 np, 0, <<>>)]

\* tolman_IV.py generate_data: the dictionary appended to data
generate_data_row(rv, pv, rhov) ==
    [r |-> rv, rho |-> rhov, p |-> pv, p_over_rho |-> RDiv(pv, rhov)]
generate_data_keep(rows, rv, pv, rhov) ==
    IF is_physical(pv, rhov) THEN Append(rows, generate_data_row(rv, pv, rhov)) ELSE rows
generate_data_at(self, rows, rv) ==
    generate_data_keep(rows, rv, pressure(self, rv), density(self, rv))
RECURSIVE generate_data_rows(_, _, _, _, _)
generate_data_rows(self, stop, np, idx, rows) ==
    IF idx >= np THEN rows
    ELSE generate_data_rows(self, stop, np, idx + 1,
                            generate_data_at(self, rows, linspace(stop, np, idx)))
\* tolman_IV.py generate_data(n_points)
generate_data(self, np) ==
    IF boundary_radius(self).sgn <= 0 THEN NoneV
    ELSE [rows |-> generate_data_rows(self, RootScale(boundary_radius(self), Frac(999, 1000)),
                                      np, 0, <<>>)]

\* the keys of the appended dictionaries, in the order they are written:
\* the columns of the DataFrame
profile_columns(e) ==
    IF e = "generate_data" THEN <<"r", "rho", "p", "p_over_rho">>
    ELSE <<"r", "rho", "p", "p_over_rho", "cs2">>

(***************************************************************************)
(* tolmanIV_corrected.py: TolmanIV                                         *)
(***************************************************************************)
\* A2/R2 and r2/A2 raise ZeroDivisionError
corrected_pressure_raises(self) == self.A * self.A = 0 \/ self.R * self.R = 0

\* a pressure with 2*r2/R2 in the numerator
corrected_pressure_mut(self, r) ==
    LET r2 == Sq(r)
        A2 == Num(self.A * self.A)
        R2 == Num(self.R * self.R)
        numerator1 == RSub(RSub(Num(1), RDiv(A2, R2)), RDiv(RMul(Num(2), r2), R2))
        denominator1 == RMul(A2, RAdd(Num(1), RDiv(RMul(Num(2), r2), A2)))
        eight_pi_p == RDiv(numerator1, denominator1)
    IN RDiv(eight_pi_p, EightPi)

corrected_pressure(self, r) ==
    LET r2 == Sq(r)
        A2 == Num(self.A * self.A)
        R2 == Num(self.R * self.R)
        numerator1 == RSub(RSub(Num(1), RDiv(A2, R2)), RDiv(RMul(Num(3), r2), R2))
        denominator1 == RMul(A2, RAdd(Num(1), RDiv(RMul(Num(2), r2), A2)))
        eight_pi_p == RDiv(numerator1, denominator1)
    IN RDiv(eight_pi_p, EightPi)

corrected_density(self, r) ==
    LET r2 == Sq(r)
        A2 == Num(self.A * self.A)
        R2 == Num(self.R * self.R)
        numerator == RAdd(RAdd(Num(1), RDiv(RMul(Num(3), A2), R2)), RDiv(RMul(Num(3), r2), R2))
        denominator == RMul(A2, RAdd(Num(1), RDiv(RMul(Num(2), r2), A2)))
        numerator2 == RMul(Num(2), RSub(Num(1), RDiv(r2, R2)))
        denominator2 == RMul(A2, LET b == RAdd(Num(1), RDiv(RMul(Num(2), r2), A2))
                                 IN RMul(b, b))
        eight_pi_rho == RAdd(RDiv(numerator, denominator), RDiv(numerator2, denominator2))
    IN RDiv(eight_pi_rho, EightPi)

corrected_find_valid_parameters(self) ==
    LET p_central == corrected_pressure(self, Root(0, RZero))
    IN RLt(Num(0), p_central)

\* np.gradient([lo, mid, hi])[1]
gradient_mid(lo, mid, hi) == RDiv(RSub(hi, lo), Num(2))

\* dp/drho of numpy floats: inf or nan when drho is 0
corrected_slope(gp, grho) == IF grho.s = 0 THEN NonFinite ELSE RDiv(gp, grho)

\* generate_eos_data: the dictionary appended to data
corrected_row(self, rv, pv, rhov) ==
    [r |-> rv, rho |-> rhov, p |-> pv,
     p_over_rho |-> RDiv(pv, rhov),
     cs2 |-> IF rv.sgn > 0
             THEN corrected_slope(
                      gradient_mid(corrected_pressure(self, RootScale(rv, Frac(99, 100))), pv,
                                   corrected_pressure(self, RootScale(rv, Frac(101, 100)))),
                      gradient_mid(corrected_density(self, RootScale(rv, Frac(99, 100))), rhov,
                                   corrected_density(self, RootScale(rv, Frac(101, 100)))))
             ELSE RZero]

(***************************************************************************)
(* The state: one call of an entry point, from its arguments to its        *)
(* result.                                                                 *)
(*   entry              the entry point or method called                   *)
(*   pc                 its position                                       *)
(*   args               A, R, n_points, save_data (A, R, r for density;    *)
(*                      A, R, n_points for verify_equation_of_state)       *)
(*   core               the constructed object (self.A, self.R)            *)
(*   raised             the exception raised, "" if none                   *)
(*   analysis_results   what analyze_solution returned                     *)
(*   printed            what analyze_solution printed about the boundary   *)
(*   df                 the generated profile                              *)
(*   physical_checks    what check_physical_conditions returned            *)
(*   eos_verification   what verify_equation_of_state returned             *)
(*   files              the CSV files written                              *)
(*   result             the value returned by the entry point              *)
(* and the locals of the running loop (generate_eos_data or                *)
(* verify_equation_of_state):                                              *)
(*   rb, n, i, r, p, rho, rho_eos, data, errors                            *)
(* (p and rho are p_direct and rho_direct in verify_equation_of_state; n   *)
(* is its n_points), and the frame of run_parameter_study:                 *)
(*   study              parameter_sets, n_points, results, successful,     *)
(*                      failed, and done, the number of cases processed    *)
(***************************************************************************)
VARIABLES entry, pc, args, core, raised, analysis_results, printed, df,
          physical_checks, eos_verification, files, result,
          rb, n, i, r, p, rho, rho_eos, data, errors, study

callVars == <<entry, args>>
outVars == <<analysis_results, printed, df, physical_checks, eos_verification, files, result>>
loopVars == <<rb, n, i, r, p, rho, rho_eos, data, errors>>
vars == <<entry, pc, args, core, raised, analysis_results, printed, df,
          physical_checks, eos_verification, files, result,
          rb, n, i, r, p, rho, rho_eos, data, errors, study>>

\* n_points passed to verify_equation_of_state by the entry points
VerifyPoints == 20

ParamsA == (-MaxNeg)..MaxA
ParamsR == (-MaxNeg)..MaxR

\* the cases of a study: R <= A, A = 0, A < 0, R >= sqrt(3)*A, and a valid
\* pair
StudyCases == {<<2, 1>>, <<0, 1>>, <<-2, 1>>, <<1, 2>>, <<2, 3>>}
\* the lists of at most MaxCases cases
ParameterSets == UNION {[1..len -> StudyCases] : len \in 0..MaxCases}

Init ==
    /\ entry = "none"
    /\ pc = "idle"
    /\ args = NoneV
    /\ core = NoneV
    /\ raised = ""
    /\ analysis_results = NoneV
    /\ printed = NoneV
    /\ df = NoneV
    /\ physical_checks = NoneV
    /\ eos_verification = NoneV
    /\ files = {}
    /\ result = NoneV
    /\ rb = NoneV
    /\ n = 0
    /\ i = 0
    /\ r = NoneV
    /\ p = NoneV
    /\ rho = NoneV
    /\ rho_eos = NoneV
    /\ data = <<>>
    /\ errors = <<>>
    /\ study = NoneV

\* process_single_case(A, R, n_points), analyze_tolman_iv(A, R, n_points, save_data)
\* or the loop body of the tolmanIV_corrected.py script is entered
Call(e, a, b, np, save) ==
    /\ pc = "idle"
    /\ entry' = e
    /\ args' = [A |-> a, R |-> b, n_points |-> np, save_data |-> save]
    /\ pc' = "construct"
    /\ UNCHANGED <<core, raised, outVars, loopVars>>
    /\ UNCHANGED study

\* TolmanIVCore(A, R).density(r) is called, r one of the RadiusSteps radii
\* k*R/RadiusSteps
CallDensity(a, b, k) ==
    /\ pc = "idle"
    /\ entry' = "density"
    /\ args' = [A |-> a, R |-> b, r |-> RootScale(RootOf(Num(b)), Frac(k, RadiusSteps))]
    /\ pc' = "construct"
    /\ UNCHANGED <<core, raised, outVars, loopVars>>
    /\ UNCHANGED study

\* TolmanIVAnalysis(TolmanIVCore(A, R)).verify_equation_of_state(n_points) is called
CallVerify(a, b, np) ==
    /\ pc = "idle"
    /\ entry' = "verify_equation_of_state"
    /\ args' = [A |-> a, R |-> b, n_points |-> np]
    /\ pc' = "construct"
    /\ UNCHANGED <<core, raised, outVars, loopVars>>
    /\ UNCHANGED study

\* TolmanIVCore(A, R); process_single_case and analyze_tolman_iv catch the
\* ValueError and return None
ConstructCore ==
    /\ pc = "construct"
    /\ entry \in {"process_single_case", "analyze_tolman_iv"} \cup DirectEntries
    /\ IF TolmanIVCore_raises(args.A, args.R)
       THEN /\ raised' = "ValueError"
            /\ pc' = IF entry \in DirectEntries THEN "crashed" ELSE "done"
            /\ UNCHANGED core
       ELSE /\ core' = [A |-> args.A, R |-> args.R]
            /\ pc' = IF entry = "density" THEN "density"
                     ELSE IF entry = "verify_equation_of_state" THEN "verify"
                     ELSE "analyze"
            /\ UNCHANGED raised
    /\ UNCHANGED <<callVars, outVars, loopVars>>
    /\ UNCHANGED study

\* core.density(r)
Density ==
    /\ pc = "density"
    /\ IF density_raises(core)
       THEN /\ raised' = "ZeroDivisionError"
            /\ pc' = "crashed"
            /\ UNCHANGED <<r, rho, result>>
       ELSE /\ r' = args.r
            /\ rho' = density(core, args.r)
            /\ result' = rho'
            /\ pc' = "done"
            /\ UNCHANGED raised
    /\ UNCHANGED <<callVars, core, analysis_results, printed, df, physical_checks,
                   eos_verification, files, rb, n, i, p, rho_eos, data, errors>>
    /\ UNCHANGED study

\* TolmanIV(A, R).generate_eos_data(n_points) of tolman_iv_complete.py or
\* TolmanIV(A, R).generate_data(n_points) of tolman_IV.py is called
CallVariant(e, a, b, np) ==
    /\ pc = "idle"
    /\ entry' = e
    /\ args' = [A |-> a, R |-> b, n_points |-> np]
    /\ pc' = "construct"
    /\ UNCHANGED <<core, raised, outVars, loopVars>>
    /\ UNCHANGED study

\* TolmanIV(A, R) of tolman_iv_complete.py and of tolman_IV.py
ConstructVariant ==
    /\ pc = "construct"
    /\ entry \in VariantEntries
    /\ IF TolmanIVCore_raises(args.A, args.R)
       THEN /\ raised' = "ValueError"
            /\ pc' = "crashed"
            /\ UNCHANGED core
       ELSE /\ core' = [A |-> args.A, R |-> args.R]
            /\ pc' = "generate_variant"
            /\ UNCHANGED raised
    /\ UNCHANGED <<callVars, outVars, loopVars>>
    /\ UNCHANGED study

\* the whole generate_eos_data(n_points) of tolman_iv_complete.py or
\* generate_data(n_points) of tolman_IV.py
GenerateVariant ==
    /\ pc = "generate_variant"
    /\ IF boundary_radius_raises(core) \/ (args.n_points > 0 /\ pressure_raises(core))
       THEN /\ raised' = "ZeroDivisionError"
            /\ pc' = "crashed"
            /\ UNCHANGED <<df, rb>>
       ELSE /\ rb' = boundary_radius(core)
            /\ df' = IF entry = "generate_data" THEN generate_data(core, args.n_points)
                     ELSE complete_generate_eos_data(core, args.n_points)
            /\ pc' = "done"
            /\ UNCHANGED raised
    /\ UNCHANGED <<callVars, core, analysis_results, printed, physical_checks,
                   eos_verification, files, result, n, i, r, p, rho, rho_eos, data, errors>>
    /\ UNCHANGED study

\* tolmanIV_corrected.py TolmanIV(A, R): only prints a warning when R <= A
ConstructCorrected ==
    /\ pc = "construct"
    /\ entry = "corrected_main"
    /\ core' = [A |-> args.A, R |-> args.R]
    /\ pc' = "generate"
    /\ UNCHANGED <<callVars, raised, outVars, loopVars>>
    /\ UNCHANGED study

\* analysis.analyze_solution(); process_single_case catches every Exception,
\* analyze_tolman_iv only ValueError
AnalyzeSolution ==
    /\ pc = "analyze"
    /\ IF analyze_solution_raises(core)
       THEN /\ raised' = "ZeroDivisionError"
            /\ pc' = IF entry = "process_single_case" THEN "done" ELSE "crashed"
            /\ UNCHANGED <<analysis_results, printed>>
       ELSE /\ analysis_results' = analyze_solution(core)
            /\ printed' = analyze_solution_prints(core)
            /\ pc' = IF entry = "process_single_case" THEN "gate" ELSE "generate"
            /\ UNCHANGED raised
    /\ UNCHANGED <<callVars, core, df, physical_checks, eos_verification, files, result,
                   loopVars>>
    /\ UNCHANGED study

\* a gate that lets every analysed case through
ValidityGate_mut ==
    /\ pc = "gate"
    /\ pc' = "generate"
    /\ UNCHANGED <<callVars, core, raised, outVars, loopVars>>
    /\ UNCHANGED study

\* process_single_case: if not analysis_results['valid']: return None
ValidityGate ==
    /\ pc = "gate"
    /\ pc' = IF analysis_results.valid THEN "generate" ELSE "done"
    /\ UNCHANGED <<callVars, core, raised, outVars, loopVars>>
    /\ UNCHANGED study

\* generate_eos_data without the early return for rb <= 0
GenerateEosData_mut ==
    /\ pc = "generate"
    /\ entry \in {"process_single_case", "analyze_tolman_iv"}
    /\ rb' = boundary_radius(core)
    /\ n' = args.n_points
    /\ i' = 0
    /\ data' = <<>>
    /\ pc' = "generate_loop"
    /\ UNCHANGED <<callVars, core, raised, analysis_results, printed, df, physical_checks,
                   eos_verification, files, result, r, p, rho, rho_eos, errors>>
    /\ UNCHANGED study

\* TolmanIVData.generate_eos_data(n_points), up to the loop
GenerateEosData ==
    /\ pc = "generate"
    /\ entry \in {"process_single_case", "analyze_tolman_iv"}
    /\ rb' = boundary_radius(core)
    /\ n' = args.n_points
    /\ i' = 0
    /\ data' = <<>>
    /\ IF rb'.sgn <= 0
       THEN df' = [rows |-> <<>>] /\ pc' = "check_len"
       ELSE df' = df /\ pc' = "generate_loop"
    /\ UNCHANGED <<callVars, core, raised, analysis_results, printed, physical_checks,
                   eos_verification, files, result, r, p, rho, rho_eos, errors>>
    /\ UNCHANGED study

\* one iteration of: for i, r in enumerate(r_values)
GenerateStep ==
    /\ pc = "generate_loop"
    /\ entry \in {"process_single_case", "analyze_tolman_iv"}
    /\ i < n
    /\ r' = linspace(RootScale(rb, Frac(999, 1000)), n, i)
    /\ p' = pressure(core, r')
    /\ rho' = density(core, r')
    /\ data' = IF is_physical(p', rho') THEN Append(data, data_row(data, i, r', p', rho'))
               ELSE data
    /\ i' = i + 1
    /\ UNCHANGED <<pc, callVars, core, raised, outVars, rb, n, rho_eos, errors>>
    /\ UNCHANGED study

\* a generate_eos_data that leaves self.R changed
GenerateReturn_mut ==
    /\ pc = "generate_loop"
    /\ i >= n
    /\ df' = [rows |-> data]
    /\ core' = [core EXCEPT !.R = @ + 1]
    /\ pc' = "check_len"
    /\ UNCHANGED <<callVars, raised, analysis_results, printed, physical_checks,
                   eos_verification, files, result, loopVars>>
    /\ UNCHANGED study

\* return pd.DataFrame(data)
GenerateReturn ==
    /\ pc = "generate_loop"
    /\ i >= n
    /\ df' = [rows |-> data]
    /\ pc' = "check_len"
    /\ UNCHANGED <<callVars, core, raised, analysis_results, printed, physical_checks,
                   eos_verification, files, result, loopVars>>
    /\ UNCHANGED study

\* tolmanIV_corrected.py generate_eos_data(n_points), up to the loop; nothing
\* catches the ZeroDivisionError of find_valid_parameters
GenerateCorrected ==
    /\ pc = "generate"
    /\ entry = "corrected_main"
    /\ n' = args.n_points
    /\ i' = 0
    /\ data' = <<>>
    /\ IF corrected_pressure_raises(core)
       THEN raised' = "ZeroDivisionError" /\ pc' = "crashed" /\ df' = df
       ELSE /\ raised' = raised
            /\ IF ~corrected_find_valid_parameters(core)
               THEN df' = [rows |-> <<>>] /\ pc' = "check_len"
               ELSE df' = df /\ pc' = "generate_loop"
    /\ UNCHANGED <<callVars, core, analysis_results, printed, physical_checks,
                   eos_verification, files, result, rb, r, p, rho, rho_eos, errors>>
    /\ UNCHANGED study

\* tolmanIV_corrected.py, one iteration of: for r in r_values
CorrectedStep ==
    /\ pc = "generate_loop"
    /\ entry = "corrected_main"
    /\ i < n
    /\ r' = linspace(RootOf(RMul(Num(core.R), Frac(99, 100))), n, i)
    /\ p' = corrected_pressure(core, r')
    /\ rho' = corrected_density(core, r')
    /\ data' = IF is_physical(p', rho') THEN Append(data, corrected_row(core, r', p', rho'))
               ELSE data
    /\ i' = i + 1
    /\ UNCHANGED <<pc, callVars, core, raised, outVars, rb, n, rho_eos, errors>>
    /\ UNCHANGED study

\* if len(df) == 0: return None   (if len(df) > 0: ... in the other two)
CheckLen ==
    /\ pc = "check_len"
    /\ pc' = IF Len(df.rows) = 0 THEN "done"
             ELSE IF entry = "corrected_main" THEN "save" ELSE "physical"
    /\ UNCHANGED <<callVars, core, raised, outVars, loopVars>>
    /\ UNCHANGED study

\* analysis.check_physical_conditions(df)
CheckPhysicalConditions ==
    /\ pc = "physical"
    /\ physical_checks' = check_physical_conditions(df)
    /\ pc' = "verify"
    /\ UNCHANGED <<callVars, core, raised, analysis_results, printed, df,
                   eos_verification, files, result, loopVars>>
    /\ UNCHANGED study

\* analysis.verify_equation_of_state(n_points), up to the loop; the entry
\* points pass n_points = 20 and would save next
VerifyEquationOfState ==
    /\ pc = "verify"
    /\ IF boundary_radius_raises(core)
       THEN /\ raised' = "ZeroDivisionError"
            /\ pc' = "crashed"
            /\ UNCHANGED <<rb, n, i, errors, eos_verification>>
       ELSE /\ rb' = boundary_radius(core)
            /\ n' = IF entry \in DirectEntries THEN args.n_points ELSE VerifyPoints
            /\ i' = 0
            /\ errors' = <<>>
            /\ raised' = raised
            /\ IF rb'.sgn <= 0
               THEN /\ eos_verification' = NoneV
                    /\ pc' = IF entry \in DirectEntries THEN "done" ELSE "save"
               ELSE /\ eos_verification' = eos_verification
                    /\ pc' = "verify_loop"
    /\ UNCHANGED <<callVars, core, analysis_results, printed, df, physical_checks,
                   files, result, r, p, rho, rho_eos, data>>
    /\ UNCHANGED study

\* one iteration of: for r in r_values
VerifyStep ==
    /\ pc = "verify_loop"
    /\ i < n
    /\ IF pressure_raises(core)
       THEN /\ raised' = "ZeroDivisionError"
            /\ pc' = "crashed"
            /\ UNCHANGED <<r, p, rho, rho_eos, errors, i>>
       ELSE /\ r' = linspace(RootScale(rb, Frac(99, 100)), n, i)
            /\ p' = pressure(core, r')
            /\ rho' = density(core, r')
            /\ rho_eos' = equation_of_state(core, p')
            /\ errors' = IF RLt(RZero, rho')
                         THEN Append(errors, relative_error(rho_eos', rho'))
                         ELSE errors
            /\ i' = i + 1
            /\ UNCHANGED <<pc, raised>>
    /\ UNCHANGED <<callVars, core, outVars, rb, n, data>>
    /\ UNCHANGED study

\* return {'mean_error': ..., 'max_error': ...}
VerifyReturn ==
    /\ pc = "verify_loop"
    /\ i >= n
    /\ eos_verification' = verify_report(errors)
    /\ pc' = IF entry \in DirectEntries THEN "done" ELSE "save"
    /\ result' = IF entry \in DirectEntries THEN eos_verification' ELSE result
    /\ UNCHANGED <<callVars, core, raised, analysis_results, printed, df, physical_checks,
                   files, loopVars>>
    /\ UNCHANGED study

\* process_single_case(A, R, n_points) as a function of its arguments: None
\* or the returned summary
case_summary(a, b, analysis, data_df, checks, eos) ==
    [A |-> a,
     R |-> b,
     valid |-> TRUE,
     data_points |-> Len(data_df.rows),
     file |-> csv_name(a, b, ""),
     central_pressure |-> analysis.p_c,
     central_density |-> analysis.rho_c,
     boundary_radius |-> analysis.rb,
     physical_checks |-> checks,
     eos_error |-> IF eos # NoneV THEN eos.mean_error ELSE NoneV]
case_after_data(self, analysis, data_df) ==
    IF Len(data_df.rows) = 0 THEN NoneV
    ELSE case_summary(self.A, self.R, analysis, data_df, check_physical_conditions(data_df),
                      verify_equation_of_state(self, VerifyPoints))
case_after_analysis(self, analysis, np) ==
    IF ~analysis.valid THEN NoneV
    ELSE case_after_data(self, analysis, generate_eos_data(self, np))
process_single_case(a, b, np) ==
    IF TolmanIVCore_raises(a, b) THEN NoneV
    ELSE IF analyze_solution_raises([A |-> a, R |-> b]) THEN NoneV
    ELSE case_after_analysis([A |-> a, R |-> b], analyze_solution([A |-> a, R |-> b]), np)

\* a summary that counts the files found in output_dir
SaveCase_mut ==
    /\ pc = "save"
    /\ entry = "process_single_case"
    /\ files' = files \cup {csv_name(args.A, args.R, "")}
    /\ result' = [A |-> args.A,
                  R |-> args.R,
                  valid |-> TRUE,
                  data_points |-> Len(df.rows) + Cardinality(files),
                  file |-> csv_name(args.A, args.R, ""),
                  central_pressure |-> analysis_results.p_c,
                  central_density |-> analysis_results.rho_c,
                  boundary_radius |-> analysis_results.rb,
                  physical_checks |-> physical_checks,
                  eos_error |-> IF eos_verification # NoneV
                                THEN eos_verification.mean_error ELSE NoneV]
    /\ pc' = "done"
    /\ UNCHANGED <<callVars, core, raised, analysis_results, printed, df, physical_checks,
                   eos_verification, loopVars>>
    /\ UNCHANGED study

\* process_single_case: df.to_csv(full_path) and the returned summary
SaveCase ==
    /\ pc = "save"
    /\ entry = "process_single_case"
    /\ files' = files \cup {csv_name(args.A, args.R, "")}
    /\ result' = [A |-> args.A,
                  R |-> args.R,
                  valid |-> TRUE,
                  data_points |-> Len(df.rows),
                  file |-> csv_name(args.A, args.R, ""),
                  central_pressure |-> analysis_results.p_c,
                  central_density |-> analysis_results.rho_c,
                  boundary_radius |-> analysis_results.rb,
                  physical_checks |-> physical_checks,
                  eos_error |-> IF eos_verification # NoneV
                                THEN eos_verification.mean_error ELSE NoneV]
    /\ pc' = "done"
    /\ UNCHANGED <<callVars, core, raised, analysis_results, printed, df, physical_checks,
                   eos_verification, loopVars>>
    /\ UNCHANGED study

\* analyze_tolman_iv: if save_data: data_gen.save_data(df); return {...}
SaveAnalyze ==
    /\ pc = "save"
    /\ entry = "analyze_tolman_iv"
    /\ files' = IF args.save_data THEN files \cup {csv_name(core.A, core.R, "")} ELSE files
    /\ result' = [data |-> df,
                  analysis |-> analysis_results,
                  physical_checks |-> physical_checks,
                  eos_verification |-> eos_verification]
    /\ pc' = "done"
    /\ UNCHANGED <<callVars, core, raised, analysis_results, printed, df, physical_checks,
                   eos_verification, loopVars>>
    /\ UNCHANGED study

\* tolmanIV_corrected.py script: df.to_csv(output_file)
SaveCorrected ==
    /\ pc = "save"
    /\ entry = "corrected_main"
    /\ files' = files \cup {csv_name(args.A, args.R, "_valid")}
    /\ pc' = "done"
    /\ UNCHANGED <<callVars, core, raised, analysis_results, printed, df, physical_checks,
                   eos_verification, result, loopVars>>
    /\ UNCHANGED study

\* run_parameter_study(parameter_sets, n_points), up to the loop
RunParameterStudy(ps, np) ==
    /\ pc = "idle"
    /\ entry' = "run_parameter_study"
    /\ study' = [parameter_sets |-> ps, n_points |-> np, results |-> <<>>,
                 successful |-> 0, failed |-> 0, done |-> 0]
    /\ pc' = "study"
    /\ UNCHANGED <<args, core, raised, outVars, loopVars>>

\* for A, R in parameter_sets: result = process_single_case(A, R, n_points)
StudyCase ==
    /\ pc = "study"
    /\ study.done < Len(study.parameter_sets)
    /\ entry' = "process_single_case"
    /\ args' = [A |-> study.parameter_sets[study.done + 1][1],
                R |-> study.parameter_sets[study.done + 1][2],
                n_points |-> study.n_points, save_data |-> TRUE]
    /\ pc' = "construct"
    /\ core' = NoneV
    /\ raised' = ""
    /\ analysis_results' = NoneV
    /\ printed' = NoneV
    /\ df' = NoneV
    /\ physical_checks' = NoneV
    /\ eos_verification' = NoneV
    /\ result' = NoneV
    /\ rb' = NoneV
    /\ n' = 0
    /\ i' = 0
    /\ r' = NoneV
    /\ p' = NoneV
    /\ rho' = NoneV
    /\ rho_eos' = NoneV
    /\ data' = <<>>
    /\ errors' = <<>>
    /\ UNCHANGED <<files, study>>

\* a loop body that does not count the cases that returned None
StudyCollect_mut ==
    /\ pc = "done"
    /\ study # NoneV
    /\ study' = IF result # NoneV
                THEN [study EXCEPT !.results = Append(@, result),
                                   !.successful = @ + 1,
                                   !.done = @ + 1]
                ELSE [study EXCEPT !.done = @ + 1]
    /\ entry' = "run_parameter_study"
    /\ pc' = "study"
    /\ UNCHANGED <<args, core, raised, outVars, loopVars>>

\* if result: results.append(result); successful += 1 / else: failed += 1
StudyCollect ==
    /\ pc = "done"
    /\ study # NoneV
    /\ study' = IF result # NoneV
                THEN [study EXCEPT !.results = Append(@, result),
                                   !.successful = @ + 1,
                                   !.done = @ + 1]
                ELSE [study EXCEPT !.failed = @ + 1, !.done = @ + 1]
    /\ entry' = "run_parameter_study"
    /\ pc' = "study"
    /\ UNCHANGED <<args, core, raised, outVars, loopVars>>

\* a summary written whether or not a case succeeded
StudySummary_mut ==
    /\ pc = "study"
    /\ study.done >= Len(study.parameter_sets)
    /\ files' = files \cup {[summary |-> [total_cases |-> Len(study.parameter_sets),
                                          successful |-> study.successful,
                                          failed |-> study.failed,
                                          results |-> study.results]]}
    /\ pc' = "returned"
    /\ UNCHANGED <<callVars, core, raised, analysis_results, printed, df, physical_checks,
                   eos_verification, result, loopVars, study>>

\* after the loop: if results: json.dump({...}, f) into summary.json, then
\* return results. The records hold the numpy booleans of physical_checks:
\* json.dump writes them or raises TypeError, as the installed encoder has it;
\* open(summary_file, 'w') has created the file by then, and it is left with
\* a truncated document (summary |-> None).
StudySummary ==
    /\ pc = "study"
    /\ study.done >= Len(study.parameter_sets)
    /\ \/ /\ files' = IF study.results # <<>>
                       THEN files \cup {[summary |-> [total_cases |-> Len(study.parameter_sets),
                                                     successful |-> study.successful,
                                                     failed |-> study.failed,
                                                     results |-> study.results]]}
                       ELSE files
          /\ pc' = "returned"
          /\ UNCHANGED raised
       \/ /\ study.results # <<>>
          /\ raised' = "TypeError"
          /\ pc' = "crashed"
          /\ files' = files \cup {[summary |-> NoneV]}
    /\ UNCHANGED <<callVars, core, analysis_results, printed, df, physical_checks,
                   eos_verification, result, loopVars, study>>

Next ==
    \/ \E e \in Entries, a \in ParamsA, b \in ParamsR, np \in 0..MaxN :
          \E save \in (IF e = "analyze_tolman_iv" THEN BOOLEAN ELSE {TRUE}) :
             Call(e, a, b, np, save)
    \/ \E a \in ParamsA, b \in ParamsR, k \in 0..(RadiusSteps - 1) : CallDensity(a, b, k)
    \/ \E a \in ParamsA, b \in ParamsR, np \in 0..MaxN : CallVerify(a, b, np)
    \/ \E e \in VariantEntries, a \in ParamsA, b \in ParamsR, np \in 0..MaxN :
          CallVariant(e, a, b, np)
    \/ ConstructCore
    \/ ConstructVariant
    \/ GenerateVariant
    \/ Density
    \/ ConstructCorrected
    \/ AnalyzeSolution
    \/ ValidityGate
    \/ GenerateEosData
    \/ GenerateStep
    \/ GenerateReturn
    \/ GenerateCorrected
    \/ CorrectedStep
    \/ CheckLen
    \/ CheckPhysicalConditions
    \/ VerifyEquationOfState
    \/ VerifyStep
    \/ VerifyReturn
    \/ SaveCase
    \/ SaveAnalyze
    \/ SaveCorrected
    \/ \E ps \in ParameterSets, np \in {0, MaxN} : RunParameterStudy(ps, np)
    \/ StudyCase
    \/ StudyCollect
    \/ StudySummary

Spec == Init /\ [][Next]_vars

(***************************************************************************)
(* Properties                                                              *)
(***************************************************************************)
ModularEntries == {"process_single_case", "analyze_tolman_iv"}
Center == Root(0, RZero)
\* R < sqrt(3)*A
BelowSqrt3(self) == RootCmp(RootOf(Num(self.R)), Sqrt3Times(self.A)) < 0

\* C1: at every radius sampled by verify_equation_of_state the density obtained
\* from the pressure through equation_of_state equals density(r), and the
\* reported mean and max relative errors are 0.
C1_EosAgreesWithDensity ==
    /\ (pc = "verify_loop" /\ i > 0) => REq(rho_eos, rho)
    /\ (eos_verification # NoneV /\ errors # <<>>) =>
          /\ eos_verification.mean_error # NoneV
          /\ REq(eos_verification.mean_error, RZero)
          /\ REq(eos_verification.max_error, RZero)
C1_Witness == pc = "save" /\ eos_verification # NoneV /\ Len(errors) = VerifyPoints

\* C2: the central values returned by central_values() are density(0) and
\* pressure(0), with 8*pi*rho_c = 3/A^2 + 3/R^2 and 8*pi*p_c = 1/A^2 - 1/R^2.
C2_CentralValuesAtCenter ==
    analysis_results # NoneV =>
        /\ REq(analysis_results.rho_c, density(core, Center))
        /\ REq(analysis_results.p_c, pressure(core, Center))
        /\ REq(RMul(EightPi, analysis_results.rho_c),
               RAdd(Frac(3, core.A * core.A), Frac(3, core.R * core.R)))
        /\ REq(RMul(EightPi, analysis_results.p_c),
               RSub(Frac(1, core.A * core.A), Frac(1, core.R * core.R)))
C2_Witness == analysis_results # NoneV /\ RLt(RZero, analysis_results.p_c)

\* C3: when R > A and R < sqrt(3)*A the boundary radius lies strictly between
\* 0 and R and the pressure at the boundary radius is 0.
C3_BoundaryIsPressureRoot ==
    (printed # NoneV /\ core.R > core.A /\ BelowSqrt3(core)) =>
        /\ printed.has_rb
        /\ RootCmp(Center, printed.rb) < 0
        /\ RootCmp(printed.rb, RootOf(Num(core.R))) < 0
        /\ REq(printed.p_b, RZero)
C3_Witness == printed # NoneV /\ core.R > core.A /\ BelowSqrt3(core) /\ printed.has_rb

\* C4: boundary_radius() never raises on a constructed instance; it returns rb > 0
\* with 3*rb^2 = R^2 - A^2 when A^2 < R^2 and 0 otherwise.
C4_BoundaryRadiusTotal ==
    (core # NoneV /\ entry \in ModularEntries) =>
        /\ ~boundary_radius_raises(core)
        /\ IF core.A * core.A < core.R * core.R
           THEN /\ boundary_radius(core).sgn > 0
                /\ REq(RMul(Num(3), Sq(boundary_radius(core))),
                       Num(core.R * core.R - core.A * core.A))
           ELSE boundary_radius(core).sgn = 0

\* C5: a call with R <= A ends in the constructor with an error, and no
\* instance, validity report, profile, file or result is produced for it.
C5_ConstructionFailsWhenRLeA ==
    (args # NoneV /\ args.R <= args.A /\ pc # "construct") =>
        /\ core = NoneV
        /\ raised = "ValueError"
        /\ analysis_results = NoneV
        /\ df = NoneV
        /\ files = {}
        /\ result = NoneV

\* C6: every constructed instance has A > 0, R > 0 and R > A.
C6_ConstructedParametersPositive ==
    (core # NoneV /\ entry \in ModularEntries) =>
        core.A > 0 /\ core.R > 0 /\ core.R > core.A

\* C7: the 'pc > 0' flag of check_validity_conditions is true exactly when the
\* central pressure central_values().p_c is positive.
C7_FlagIffCentralPressurePositive ==
    analysis_results # NoneV =>
        (check_validity_conditions(core).pc_gt_0 <=> RLt(RZero, analysis_results.p_c))

\* C8: for R > A and R >= sqrt(3)*A the validity report says valid = false, the
\* generated profile is empty and no CSV file is written, on every entry point.
C8_NonPhysicalCaseProducesNothing ==
    (core # NoneV /\ core.R > core.A /\ ~BelowSqrt3(core)) =>
        /\ analysis_results # NoneV => ~analysis_results.valid
        /\ df # NoneV => df.rows = <<>>
        /\ files = {}

\* C9: in a generated profile the p sequence and the rho sequence are
\* non-increasing in profile order, and check_physical_conditions reports so.
C9_ProfileMonotonic ==
    /\ df # NoneV =>
          \A j \in 2..Len(df.rows) : /\ RLe(df.rows[j].p, df.rows[j - 1].p)
                                     /\ RLe(df.rows[j].rho, df.rows[j - 1].rho)
    /\ physical_checks # NoneV =>
          physical_checks.pressure_monotonic /\ physical_checks.density_monotonic
C9_Witness ==
    /\ physical_checks # NoneV
    /\ Len(df.rows) >= 2
    /\ RLt(df.rows[2].p, df.rows[1].p)

\* C10: every point of a generated profile has rho >= p and
\* 0 <= p_over_rho <= 1.
C10_EnergyAndCausality ==
    df # NoneV =>
        \A j \in 1..Len(df.rows) : /\ RLe(df.rows[j].p, df.rows[j].rho)
                                   /\ RLe(RZero, df.rows[j].p_over_rho)
                                   /\ RLe(df.rows[j].p_over_rho, Num(1))
C10_Witness ==
    /\ df # NoneV
    /\ Len(df.rows) >= 2
    /\ \E j \in 1..Len(df.rows) : RLt(RZero, df.rows[j].p_over_rho)
\* C11: a generated profile holds only points with p >= 0 and rho > 0, a
\* sample is appended exactly when it has p >= 0 and rho > 0, and the profile
\* has at most n_points points.
C11_KeepsIffPhysical ==
    /\ df # NoneV =>
          /\ Len(df.rows) <= args.n_points
          /\ \A j \in 1..Len(df.rows) : /\ RLe(RZero, df.rows[j].p)
                                        /\ RLt(RZero, df.rows[j].rho)
    /\ (pc = "generate_loop" /\ i > 0) =>
          /\ Len(data) <= i
          /\ (RLe(RZero, p) /\ RLt(RZero, rho))
                <=> (/\ data # <<>>
                     /\ data[Len(data)].r = r
                     /\ data[Len(data)].p = p
                     /\ data[Len(data)].rho = rho)
C11_Witness == df # NoneV /\ Len(df.rows) > 0 /\ Len(df.rows) < args.n_points
\* C12: generate_eos_data of TolmanIVData samples the radii
\* r_k = k/(n-1) * 0.999*rb, k = 0..n-1 (the single radius 0 for n = 1): every
\* sampled radius and every radius of the profile is >= 0 and <= 0.999*rb,
\* and the radii of the profile are strictly increasing.
C12_RadiiEvenlySpaced ==
    entry \in ModularEntries =>
       /\ (pc = "generate_loop" /\ i > 0) =>
             /\ r.sgn >= 0
             /\ RootCmp(r, RootScale(rb, Frac(999, 1000))) <= 0
             /\ RootCmp(RootScale(r, Num(IF n = 1 THEN 1 ELSE n - 1)),
                        RootScale(rb, RMul(Frac(999, 1000), Num(i - 1)))) = 0
       /\ df # NoneV =>
             \A j \in 1..Len(df.rows) :
                /\ df.rows[j].r.sgn >= 0
                /\ RootCmp(df.rows[j].r, RootScale(rb, Frac(999, 1000))) <= 0
                /\ j > 1 => RootCmp(df.rows[j - 1].r, df.rows[j].r) < 0
C12_Witness ==
    /\ entry \in ModularEntries
    /\ df # NoneV
    /\ Len(df.rows) = MaxN
    /\ RootCmp(df.rows[MaxN].r, RootScale(rb, Frac(999, 1000))) = 0
\* C13: in every variant cs2 of the first point of a profile is 0 and cs2 of
\* every later point is (p - p_prev)/(rho - rho_prev) against the point before
\* it in the profile, or 0 when |rho - rho_prev| is not above 1e-10.
C13_Cs2AgainstPrecedingPoint ==
    df # NoneV =>
       \A j \in 1..Len(df.rows) :
          "cs2" \in DOMAIN df.rows[j] =>
          /\ df.rows[j].cs2 # NonFinite
          /\ REq(df.rows[j].cs2,
                 IF j = 1 THEN RZero
                 ELSE IF RLt(Tiny, RAbs(RSub(df.rows[j].rho, df.rows[j - 1].rho)))
                      THEN RDiv(RSub(df.rows[j].p, df.rows[j - 1].p),
                                RSub(df.rows[j].rho, df.rows[j - 1].rho))
                      ELSE RZero)
\* C14: the density returned by TolmanIVCore(A, R).density(r) for a radius
\* with 0 <= r < R is strictly positive, and so is every density evaluated by
\* generate_eos_data and verify_equation_of_state of the modular variant.
C14_DensityPositive ==
    /\ (entry = "density" /\ pc = "done" /\ r.sgn >= 0
          /\ RootCmp(r, RootOf(Num(core.R))) < 0) => RLt(RZero, rho)
    /\ (entry \in ModularEntries \cup {"verify_equation_of_state"}
          /\ pc \in {"generate_loop", "verify_loop"} /\ i > 0) => RLt(RZero, rho)
C14_Witness ==
    /\ entry = "density"
    /\ pc = "done"
    /\ r.sgn > 0
    /\ RootCmp(r, boundary_radius(core)) > 0
    /\ RootCmp(r, RootOf(Num(core.R))) < 0
\* C15: when boundary_radius() <= 0, generate_eos_data of TolmanIVData
\* returns an empty profile, raises nothing and evaluates neither pressure
\* nor density (the loop is never entered).
C15_NoBoundaryEmptyProfile ==
    (entry \in ModularEntries /\ rb # NoneV /\ rb.sgn <= 0) =>
       /\ df = [rows |-> <<>>]
       /\ raised = ""
       /\ pc \in {"check_len", "done"}
       /\ i = 0
       /\ r = NoneV
       /\ p = NoneV
       /\ rho = NoneV
C15_Witness ==
    /\ entry \in ModularEntries
    /\ rb # NoneV
    /\ rb.sgn <= 0
    /\ args.n_points > 0
    /\ df = [rows |-> <<>>]
\* C16: a call of verify_equation_of_state on a constructed core returns None
\* when boundary_radius() <= 0 and returns a report with the fields
\* mean_error and max_error when boundary_radius() > 0.
C16_ReportIffBoundary ==
    (entry = "verify_equation_of_state" /\ core # NoneV /\ pc \in {"done", "crashed"}
       /\ ~boundary_radius_raises(core)) =>
       /\ pc = "done"
       /\ result = NoneV <=> boundary_radius(core).sgn <= 0
       /\ result # NoneV => DOMAIN result = {"mean_error", "max_error"}
\* C17: run_parameter_study runs the cases of parameter_sets one after the
\* other in the order of the list, no case stops the loop, every processed
\* case is counted once (successful + failed = cases processed,
\* len(results) = successful), and after the loop successful + failed is the
\* number of input cases.
C17_EveryCaseCounted ==
    study # NoneV =>
       /\ study.successful + study.failed = study.done
       /\ Len(study.results) = study.successful
       /\ study.done <= Len(study.parameter_sets)
       /\ entry = "process_single_case" =>
             /\ study.done < Len(study.parameter_sets)
             /\ args.A = study.parameter_sets[study.done + 1][1]
             /\ args.R = study.parameter_sets[study.done + 1][2]
             /\ pc # "crashed"
       /\ pc \in {"returned", "crashed"} =>
             study.successful + study.failed = Len(study.parameter_sets)
C17_Witness ==
    /\ study # NoneV
    /\ pc = "returned"
    /\ Len(study.parameter_sets) = MaxCases
    /\ study.parameter_sets[1] = <<0, 1>>
    /\ study.failed = 1
    /\ study.successful = MaxCases - 1

\* C18: the results of a finished study hold one record for every case of
\* parameter_sets, in order, each with the fields A, R, valid, data_points,
\* central_pressure, central_density, boundary_radius, physical_checks and
\* eos_error.
C18_RecordPerCase ==
    (study # NoneV /\ pc = "returned") =>
       /\ Len(study.results) = Len(study.parameter_sets)
       /\ \A j \in 1..Len(study.results) :
             /\ {"A", "R", "valid", "data_points", "central_pressure", "central_density",
                 "boundary_radius", "physical_checks", "eos_error"}
                   \subseteq DOMAIN study.results[j]
             /\ study.results[j].A = study.parameter_sets[j][1]
             /\ study.results[j].R = study.parameter_sets[j][2]
             /\ study.results[j].valid \in BOOLEAN
\* C19: what check_physical_conditions returns for a profile holds a boolean
\* for each of the energy condition, non-negative pressure, positive density,
\* causality, pressure non-increasing, density non-increasing and the sound
\* speed bound 0 <= cs2 <= 1, each true exactly when its predicate holds on
\* every point (every consecutive pair), and the maximum of p/rho.
C19_ChecksMatchPredicates ==
    physical_checks # NoneV =>
       /\ physical_checks.energy_condition
             <=> \A j \in 1..Len(df.rows) : ~RLt(df.rows[j].rho, df.rows[j].p)
       /\ physical_checks.positive_pressure
             <=> \A j \in 1..Len(df.rows) : ~RLt(df.rows[j].p, RZero)
       /\ physical_checks.positive_density
             <=> \A j \in 1..Len(df.rows) : RLt(RZero, df.rows[j].rho)
       /\ physical_checks.causality
             <=> \A j \in 1..Len(df.rows) : ~RLt(Num(1), RDiv(df.rows[j].p, df.rows[j].rho))
       /\ \A j \in 1..Len(df.rows) :
             ~RLt(physical_checks.max_p_over_rho, RDiv(df.rows[j].p, df.rows[j].rho))
       /\ \E j \in 1..Len(df.rows) :
             REq(physical_checks.max_p_over_rho, RDiv(df.rows[j].p, df.rows[j].rho))
       /\ physical_checks.pressure_monotonic
             <=> \A j \in 1..(Len(df.rows) - 1) : ~RLt(df.rows[j].p, df.rows[j + 1].p)
       /\ physical_checks.density_monotonic
             <=> \A j \in 1..(Len(df.rows) - 1) : ~RLt(df.rows[j].rho, df.rows[j + 1].rho)
       /\ "sound_speed_ok" \in DOMAIN physical_checks
       /\ physical_checks.sound_speed_ok
             <=> \A j \in 1..Len(df.rows) : /\ ~RLt(df.rows[j].cs2, RZero)
                                            /\ ~RLt(Num(1), df.rows[j].cs2)
\* C20: from its construction on, through every operation called on it, a
\* core keeps the A and R it was constructed with, and repeated calls agree:
\* boundary_radius() gives generate_eos_data and verify_equation_of_state
\* the value it gave analyze_solution, pressure(0) and density(0) give
\* verify_equation_of_state the values they gave generate_eos_data, and two
\* cases of a study with the same A and R yield the same record.
C20_PureOperations ==
    /\ core # NoneV => core.A = args.A /\ core.R = args.R
    /\ (rb # NoneV /\ analysis_results # NoneV) => rb = analysis_results.rb
    /\ (entry \in ModularEntries /\ pc = "verify_loop" /\ i = 1) =>
          (r = df.rows[1].r => p = df.rows[1].p /\ rho = df.rows[1].rho)
    /\ study # NoneV =>
          \A j, k \in 1..Len(study.results) :
             (study.results[j].A = study.results[k].A
                /\ study.results[j].R = study.results[k].R)
                => study.results[j] = study.results[k]
C20_Witness ==
    /\ study # NoneV
    /\ Len(study.results) = MaxCases
    /\ study.results[1].A = study.results[MaxCases].A
    /\ study.results[1].R = study.results[MaxCases].R
    /\ core.R = args.R
    /\ rb = analysis_results.rb
    /\ eos_verification # NoneV
\* C21: the record (or None) that process_single_case returns for a case is
\* the function process_single_case(A, R, n_points) of that case alone, in a
\* study, whatever cases came before it, as in a call on its own; the study
\* stores the record unchanged.
C21_CaseDependsOnlyOnItself ==
    /\ (entry = "process_single_case" /\ pc = "done") =>
          result = process_single_case(args.A, args.R, args.n_points)
    /\ (study # NoneV /\ entry = "process_single_case") =>
          args.n_points = study.n_points
    /\ (study # NoneV /\ pc = "study" /\ study.done > 0 /\ result # NoneV) =>
          study.results[Len(study.results)] = result
C21_Witness ==
    /\ study # NoneV
    /\ entry = "process_single_case"
    /\ pc = "done"
    /\ study.done = MaxCases - 1
    /\ study.results # <<>>
    /\ result # NoneV
    /\ result.data_points = MaxN
\* C22: every record of a generated profile has the columns r, rho, p,
\* p_over_rho, cs2 and no other, written in that order.
C22_ProfileColumns ==
    df # NoneV =>
       \A j \in 1..Len(df.rows) :
          /\ DOMAIN df.rows[j] = {"r", "rho", "p", "p_over_rho", "cs2"}
          /\ DOMAIN df.rows[j] = {profile_columns(entry)[c] :
                                     c \in 1..Len(profile_columns(entry))}
          /\ profile_columns(entry) = <<"r", "rho", "p", "p_over_rho", "cs2">>
C24_RatioIsPOverRho ==
    /\ (df # NoneV /\ pc \in {"check_len", "done"}) =>
          \A j \in 1..Len(df.rows) :
             /\ RLt(RZero, df.rows[j].rho)
             /\ REq(RMul(df.rows[j].p_over_rho, df.rows[j].rho), df.rows[j].p)
             /\ REq(df.rows[j].p_over_rho, RZero) => REq(df.rows[j].p, RZero)
    /\ pc = "generate_loop" =>
          \A j \in 1..Len(data) :
             /\ RLt(RZero, data[j].rho)
             /\ REq(RMul(data[j].p_over_rho, data[j].rho), data[j].p)
C24_Witness ==
    /\ entry \in ModularEntries
    /\ df # NoneV
    /\ Len(df.rows) = MaxN
    /\ \A j \in 1..Len(df.rows) : RLt(RZero, df.rows[j].p_over_rho)
\* C25: a TolmanIVCore constructed with A > 0 has boundary_radius() > 0, and
\* whenever a caller of boundary_radius() obtained a value <= 0 (the branch
\* that returns the empty profile or None) the core has A <= 0.
C25_BoundaryExistsForPositiveA ==
    /\ (core # NoneV /\ entry # "corrected_main" /\ core.A > 0) =>
          /\ ~boundary_radius_raises(core)
          /\ boundary_radius(core).sgn > 0
    /\ (rb # NoneV /\ rb.sgn <= 0) => core.A <= 0
C25_Witness ==
    /\ entry = "verify_equation_of_state"
    /\ pc = "done"
    /\ core = [A |-> -2, R |-> 1]
    /\ rb.sgn <= 0
    /\ result = NoneV
\* C26: for a core with 0 < A < R, generate_eos_data(n) of TolmanIVData keeps
\* every sample (the pressure is strictly positive at every sampled radius),
\* so the profile has exactly n points, and for n >= 1 its first record has
\* r = 0, rho = rho_c and p = p_c.
C26_ExactlyNPoints ==
    (entry \in ModularEntries /\ core # NoneV /\ core.A > 0) =>
       /\ (pc = "generate_loop" /\ i > 0) => (RLt(RZero, p) /\ Len(data) = i)
       /\ df # NoneV =>
             /\ Len(df.rows) = args.n_points
             /\ args.n_points >= 1 =>
                   /\ df.rows[1].r = Center
                   /\ REq(df.rows[1].rho, central_values(core).rho_c)
                   /\ REq(df.rows[1].p, central_values(core).p_c)
C26_Witness ==
    /\ entry \in ModularEntries
    /\ core # NoneV
    /\ core.A > 0
    /\ pc = "check_len"
    /\ Len(df.rows) = MaxN
    /\ df.rows[1].r = Center
\* C27: for a core with 0 < A < R every cs2 of a profile generated by
\* TolmanIVData.generate_eos_data or by generate_eos_data of
\* tolman_iv_complete.py lies in [0, 1]: it is 0 in the first record and
\* strictly between 0 and 1 in the others.
C27_SoundSpeedBound ==
    (entry \in ModularEntries \cup {"complete_generate_eos_data"}
       /\ core # NoneV /\ core.A > 0 /\ df # NoneV) =>
       \A j \in 1..Len(df.rows) :
          /\ RLe(RZero, df.rows[j].cs2)
          /\ RLe(df.rows[j].cs2, Num(1))
          /\ j = 1 => REq(df.rows[j].cs2, RZero)
          /\ j > 1 => (RLt(RZero, df.rows[j].cs2) /\ RLt(df.rows[j].cs2, Num(1)))
C27_Witness ==
    /\ entry = "complete_generate_eos_data"
    /\ core # NoneV
    /\ core.A > 0
    /\ df # NoneV
    /\ Len(df.rows) = MaxN
    /\ RLt(RZero, df.rows[MaxN].cs2)
\* C28: every record collected by run_parameter_study has valid = True and
\* data_points >= 1; process_single_case returns None exactly for the cases
\* that raised, that failed the gate (not R > A and R < sqrt(3)*A) or whose
\* profile is empty, such a case writes no CSV file, and every CSV file
\* belongs to a returned record.
C28_OnlySuccessfulCasesRecorded ==
    /\ study # NoneV =>
          /\ \A j \in 1..Len(study.results) :
                /\ study.results[j].valid = TRUE
                /\ study.results[j].data_points >= 1
          /\ study.failed = study.done - Len(study.results)
          /\ \A f \in files :
                "suffix" \in DOMAIN f =>
                   \/ \E j \in 1..Len(study.results) : study.results[j].file = f
                   \/ pc = "done" /\ result # NoneV /\ result.file = f
    /\ (entry = "process_single_case" /\ analysis_results # NoneV) =>
          (analysis_results.valid <=> (core.R > core.A /\ BelowSqrt3(core)))
    /\ (entry = "process_single_case" /\ pc = "done") =>
          /\ result = NoneV <=> \/ raised # ""
                                \/ analysis_results # NoneV /\ ~analysis_results.valid
                                \/ df # NoneV /\ Len(df.rows) = 0
          /\ result = NoneV => csv_name(args.A, args.R, "") \notin files
C28_Witness ==
    /\ study # NoneV
    /\ pc = "returned"
    /\ Len(study.parameter_sets) = MaxCases
    /\ study.parameter_sets[1] = <<1, 2>>
    /\ study.failed = 1
    /\ Len(study.results) = MaxCases - 1
    /\ csv_name(1, 2, "") \notin files
    /\ csv_name(2, 3, "") \in files
\* the records of a profile without the cs2 column
WithoutCs2(rows) ==
    [j \in 1..Len(rows) |-> [r |-> rows[j].r, rho |-> rows[j].rho, p |-> rows[j].p,
                             p_over_rho |-> rows[j].p_over_rho]]
\* the records of what a generator returned (generate_data may return None)
RowsOf(data_df) == IF data_df = NoneV THEN <<>> ELSE data_df.rows

\* C29: for the same constructed (A, R) and the same n, generate_eos_data of
\* tolmanIV_modular.py and generate_eos_data of tolman_iv_complete.py return
\* the same profile, and generate_data of tolman_IV.py returns the same
\* records without cs2 (no records, as None, where the others return the
\* empty profile for rb <= 0).
C29_VariantsEquivalent ==
    /\ (entry \in ModularEntries /\ pc = "check_len") =>
          /\ df = complete_generate_eos_data(core, args.n_points)
          /\ WithoutCs2(df.rows) = RowsOf(generate_data(core, args.n_points))
    /\ (entry = "complete_generate_eos_data" /\ pc = "done") =>
          df = generate_eos_data(core, args.n_points)
    /\ (entry = "generate_data" /\ pc = "done") =>
          RowsOf(df) = WithoutCs2(generate_eos_data(core, args.n_points).rows)
C29_Witness ==
    /\ entry = "generate_data"
    /\ pc = "done"
    /\ df # NoneV
    /\ Len(df.rows) = MaxN
\* C30: in tolmanIV_corrected.py every retained point is a sampled radius
\* with 3*r^2 <= R^2 - A^2, the retained points are a prefix of the grid on
\* [0, 0.99*R] that starts at r = 0, when pressure(0) > 0 the prefix holds
\* every sampled radius with 3*r^2 <= R^2 - A^2, and for n_points >= 1 the
\* table is empty exactly when pressure(0) <= 0.
C30_RetainedPrefix ==
    entry = "corrected_main" =>
       /\ (pc = "generate_loop" /\ i > 0) =>
             ((data # <<>> /\ data[Len(data)].r = r)
                <=> RLe(RMul(Num(3), Sq(r)), Num(core.R * core.R - core.A * core.A)))
       /\ df # NoneV =>
             /\ \A j \in 1..Len(df.rows) :
                   /\ df.rows[j].r = linspace(RootOf(RMul(Num(core.R), Frac(99, 100))),
                                              args.n_points, j - 1)
                   /\ RLe(RMul(Num(3), Sq(df.rows[j].r)),
                          Num(core.R * core.R - core.A * core.A))
             /\ (Len(df.rows) < args.n_points /\ RLt(RZero, corrected_pressure(core, Center))) =>
                   RLt(Num(core.R * core.R - core.A * core.A),
                       RMul(Num(3), Sq(linspace(RootOf(RMul(Num(core.R), Frac(99, 100))),
                                                args.n_points, Len(df.rows)))))
             /\ args.n_points >= 1 =>
                   (Len(df.rows) = 0 <=> ~RLt(RZero, corrected_pressure(core, Center)))
C30_Witness ==
    /\ entry = "corrected_main"
    /\ pc = "check_len"
    /\ Len(df.rows) >= 2
    /\ Len(df.rows) < args.n_points
\* C30 as stated, for every n_points: the retained points are that prefix and
\* the table is empty exactly when pressure(0) <= 0.
C30_EmptyIffCentralPressureNotPositive ==
    entry = "corrected_main" =>
       /\ (pc = "generate_loop" /\ i > 0) =>
             ((data # <<>> /\ data[Len(data)].r = r)
                <=> RLe(RMul(Num(3), Sq(r)), Num(core.R * core.R - core.A * core.A)))
       /\ df # NoneV =>
             /\ \A j \in 1..Len(df.rows) :
                   /\ df.rows[j].r = linspace(RootOf(RMul(Num(core.R), Frac(99, 100))),
                                              args.n_points, j - 1)
                   /\ RLe(RMul(Num(3), Sq(df.rows[j].r)),
                          Num(core.R * core.R - core.A * core.A))
             /\ Len(df.rows) < args.n_points =>
                   RLt(Num(core.R * core.R - core.A * core.A),
                       RMul(Num(3), Sq(linspace(RootOf(RMul(Num(core.R), Frac(99, 100))),
                                                args.n_points, Len(df.rows)))))
             /\ Len(df.rows) = 0 <=> ~RLt(RZero, corrected_pressure(core, Center))
====
